---- MODULE Spec2Model ----
(***************************************************************************)
(* Multi-provider negotiation engine of nivasSaarthi: one ServiceRequest,  *)
(* its NegotiationSession rows, the fan-out (Celery task and the two       *)
(* views), the Telegram and WhatsApp inbound handlers, the Telegram        *)
(* button callbacks, the expiry / aggregation tasks and the customer's     *)
(* select / accept / reject / cancel views.                                *)
(*                                                                         *)
(* Prices are whole rupees.  None (a NULL column) is the integer Null.     *)
(* Time is counted in units of the 24 h negotiation window; the clock     *)
(* advances by more than one window at a time.                             *)
(***************************************************************************)
EXTENDS Integers, Sequences, FiniteSets, TLC

\* ------------------------------------------------------------- bounds
NProviders == 2
MaxSessions == 2
MaxMsgs == 2
MaxTime == 2
MaxBookings == 2
NMatched == 22
MaxRows == 12
MaxScheduled == 1
MaxHandlers == 2

\* ---------------------------------------------------- program constants
FanOutLimit == 10
SessionHours == 1

Null == 0 - 1

Providers == 1..NProviders

\* NewUser.telegram_chat_id (NULL for a provider who never linked Telegram)
\* and NewUser.phone_number.  Odd providers have linked Telegram.
TelegramChatId(p) == IF p % 2 = 1 THEN p ELSE Null
PhoneNumber(p) == 100 + p

\* customer_budget values a request is created with
Budgets == {10}

\* customer_budget values request_service accepts: anything truthy that
\* Decimal(str(...)) parses, a negative amount included.
RequestBudgets == {10, 0 - 10}

\* The inbound texts the model delivers.
Texts == {"0", "7", "8 rs", "15"}

\* The inbound texts with one that holds no digit at all.
InboundTexts == Texts \cup {"ok"}

\* What the "AI" (Sarvam chat completion) can answer in the WhatsApp flow.
AIReplies == {"plain", "DEAL FAILED:", "DEAL ACCEPTED: 15", "error"}

\* What the chat completion can answer a provider's message with: free
\* text, which may name a price, or one of the two verdicts the prompt
\* teaches it.
InboundReplies == {"plain", "How about 12?", "DEAL FAILED:", "DEAL ACCEPTED: 15"}

\* The price a reply proposes to the provider (Null when it names none).
CounterIn(reply) == IF reply = "How about 12?" THEN 12 ELSE Null

\* Explicit (max_price, min_acceptable) pairs a caller passes to the
\* single-provider start_negotiation view.
StartPrices == {<<20, 10>>}

VARIABLES
    req,        \* the ServiceRequest row
    sessions,   \* the NegotiationSession rows, in creation order (index = id)
    buttons,    \* per session: Telegram messages still showing the inline keyboard
    bookings,   \* the Service rows created by select_offer
    now,        \* the clock
    pending,    \* WhatsApp handler between its save and its final add_message:
                \* [sid, reply], or NoPending when no handler is mid-way
    scheduled,  \* check_negotiation_status runs waiting in the Celery queue
    loaded,     \* session objects WhatsApp handlers have fetched and not yet
                \* saved, one per handler running side by side: [sid, row, text]
    notices,    \* what select_offer has sent to providers, in order:
                \* [session, to, kind]
    checked     \* fan-out executions between their existing-session check
                \* and their create: the provider each one is about to open

vars == <<req, sessions, buttons, bookings, now, pending, scheduled, loaded, notices, checked>>

SessionIds == 1..Len(sessions)

NoReply == ""
NoPending == [sid |-> 0, reply |-> NoReply]

\* Decimal truthiness: `if price:` is false for None and for 0.
Truthy(price) == price # Null /\ price # 0

\* TelegramNegotiationBot.extract_price on the model's texts.
extract_price(text) ==
    CASE text = "0" -> 0
      [] text = "7" -> 7
      [] text = "8 rs" -> 8
      [] text = "15" -> 15
      [] text = "ok" -> Null

\* whatsapp_negotiator.extract_price_from_message on the model's texts:
\* "8 rs" matches none of its four patterns (the unit pattern wants 3+ digits,
\* the bare-number pattern wants the number at the end).
extract_price_from_message(text) ==
    CASE text = "0" -> 0
      [] text = "7" -> 7
      [] text = "8 rs" -> Null
      [] text = "15" -> 15
      [] text = "ok" -> Null

\* max_price * Decimal('0.7')
MinAcceptable(max_price) == (max_price * 7) \div 10

NewSession(identifier, max_price, min_acceptable) ==
    [provider_phone |-> identifier,
     status |-> "active",
     outcome |-> "none",
     current_offer |-> Null,
     counter_offer |-> Null,
     max_price |-> max_price,
     min_acceptable |-> min_acceptable,
     conversation_history |-> <<>>,
     message_count |-> 0,
     expires_at |-> now + SessionHours]

\* NegotiationSession.is_expired
is_expired(s) == now > s.expires_at

\* mutant: the message is appended but not counted
add_message_NoCount(s, role, content) ==
    [s EXCEPT !.conversation_history = Append(@, [role |-> role, content |-> content])]

\* NegotiationSession.add_message (append, count, save)
add_message(s, role, content) ==
    [s EXCEPT !.conversation_history = Append(@, [role |-> role, content |-> content]),
              !.message_count = @ + 1]

ActiveFor(ss, identifier) ==
    {i \in 1..Len(ss) : ss[i].provider_phone = identifier /\ ss[i].status = "active"}

Max(S) == CHOOSE x \in S : \A y \in S : y <= x

\* mutant: the lookup does not filter on status
LatestActive_AnyStatus(identifier) ==
    IF {i \in SessionIds : sessions[i].provider_phone = identifier} = {} THEN 0
    ELSE Max({i \in SessionIds : sessions[i].provider_phone = identifier})

\* filter(provider_phone=..., status='active') with Meta.ordering -created_at:
\* .first() and .latest('created_at') both give the newest; 0 when none.
LatestActive(identifier) ==
    IF ActiveFor(sessions, identifier) = {} THEN 0 ELSE Max(ActiveFor(sessions, identifier))

\* mutant: any completed session passes for an offer
Agreed_Completed(s) == s.status = "completed"

\* status == 'completed' and outcome == 'agreed'
Agreed(s) == s.status = "completed" /\ s.outcome = "agreed"

\* mutant: every completed session counts as an offer, whatever its outcome
CountAgreed_Completed(ss) == Cardinality({i \in 1..Len(ss) : ss[i].status = "completed"})

\* sessions.filter(status='completed', outcome='agreed').count()
CountAgreed(ss) == Cardinality({i \in 1..Len(ss) : Agreed(ss[i])})

\* sessions.filter(status='active').count()
CountActive(ss) == Cardinality({i \in 1..Len(ss) : ss[i].status = "active"})

RECURSIVE SumCounts(_)
SumCounts(ss) == IF ss = <<>> THEN 0 ELSE Head(ss).message_count + SumCounts(Tail(ss))

\* Inbound provider messages handled so far (the model's bound on them).
Inbound == SumCounts(sessions)

\* ------------------------------------------------------------ fan-out

RECURSIVE SeqOf(_)
\* A set of providers as the matcher returns it: nearest (lowest id) first.
SeqOf(S) == IF S = {} THEN <<>>
            ELSE LET m == CHOOSE x \in S : \A y \in S : x <= y
                 IN <<m>> \o SeqOf(S \ {m})

\* What find_matching_providers / the view's provider query can return.
MatchLists == {SeqOf(S) : S \in SUBSET Providers}

\* providers[:n]
Take(list, n) == SubSeq(list, 1, IF Len(list) < n THEN Len(list) ELSE n)

\* mutant: the existing-session check never finds anything
ExistingActive_Never(ss, identifier) == FALSE

\* NegotiationSession.objects.filter(service_request=..., provider_phone=...,
\*                                   status='active').first() is not None
ExistingActive(ss, identifier) == ActiveFor(ss, identifier) # {}

\* provider.telegram_chat_id if provider.telegram_chat_id else provider.phone_number
ProviderIdentifier(p) ==
    IF TelegramChatId(p) # Null THEN TelegramChatId(p) ELSE PhoneNumber(p)

\* Whether requests.post(sendMessage) for provider p answers 200, given the
\* set `sent` of providers the transport reaches in this run.
SendOk(p, sent) == p \in sent

RECURSIVE FanOut(_, _, _, _, _)
\* The for-loop of negotiate_with_providers: the session rows after it, with
\* its counters sessions_created and telegram_sent.  A send that is not
\* answered 200 is logged and nothing else.
FanOut(list, ss, created, telegram_sent, sent) ==
    IF list = <<>>
    THEN [sessions |-> ss, created |-> created, telegram_sent |-> telegram_sent]
    ELSE LET p == Head(list)
             identifier == ProviderIdentifier(p)
         IN IF ExistingActive(ss, identifier)
            THEN FanOut(Tail(list), ss, created, telegram_sent, sent)
            ELSE FanOut(Tail(list),
                        Append(ss, NewSession(identifier, req.customer_budget,
                                              MinAcceptable(req.customer_budget))),
                        created + 1,
                        IF TelegramChatId(p) # Null /\ SendOk(p, sent)
                        THEN telegram_sent + 1 ELSE telegram_sent,
                        sent)

\* The request row negotiate_with_providers leaves behind.
TaskRequest(r, matched, created) ==
    IF matched = <<>> THEN [r EXCEPT !.status = "EXPIRED"]
    ELSE IF created = 0
         THEN [r EXCEPT !.providers_contacted = created, !.status = "EXPIRED"]
         ELSE [r EXCEPT !.providers_contacted = created, !.status = "NEGOTIATING"]

Zeros(n) == [i \in 1..n |-> 0]

\* tasks.negotiate_with_providers on the match list `matched`, in a table
\* that holds at most `rows` session rows.  Nothing is put in the Celery
\* queue: the task's result dict is all it returns.
FanOutTask(matched, sent, rows) ==
    /\ pending = NoPending
    /\ LET out == IF matched = <<>>
                  THEN [sessions |-> sessions, created |-> 0, telegram_sent |-> 0]
                  ELSE FanOut(Take(matched, FanOutLimit), sessions, 0, 0, sent)
       IN /\ Len(out.sessions) <= rows
          /\ sessions' = out.sessions
          /\ buttons' = buttons \o Zeros(out.created)
          /\ req' = TaskRequest(req, matched, out.created)
    /\ UNCHANGED <<bookings, now, pending, scheduled, loaded, notices, checked>>

\* tasks.negotiate_with_providers
NegotiateWithProviders(matched, sent) == FanOutTask(matched, sent, MaxSessions)

RECURSIVE ViewFanOut(_, _, _, _)
\* The for-loop of request_service over the whole providers_list: providers
\* without Telegram only get an in-app notification; the result of
\* send_negotiation_request_sync is not read.
ViewFanOut(list, ss, contacted, sent) ==
    IF list = <<>> THEN [sessions |-> ss, created |-> contacted]
    ELSE LET p == Head(list)
         IN IF TelegramChatId(p) = Null \/ ExistingActive(ss, TelegramChatId(p))
            THEN ViewFanOut(Tail(list), ss, contacted, sent)
            ELSE ViewFanOut(Tail(list),
                            Append(ss, NewSession(TelegramChatId(p), req.customer_budget,
                                                  MinAcceptable(req.customer_budget))),
                            contacted + 1, sent)

\* views.request_service, from the row it has just created (PENDING, no
\* sessions) to its response, in a table of at most `rows` session rows.
FanOutView(matched, sent, rows) ==
    /\ pending = NoPending
    /\ req.status = "PENDING"
    /\ sessions = <<>>
    /\ LET out == ViewFanOut(matched, sessions, 0, sent)
       IN /\ Len(out.sessions) <= rows
          /\ sessions' = out.sessions
          /\ buttons' = buttons \o Zeros(out.created)
          /\ req' = [req EXCEPT !.providers_contacted = out.created,
                                !.status = IF out.created > 0 THEN "NEGOTIATING"
                                           ELSE "PENDING"]
    /\ UNCHANGED <<bookings, now, pending, scheduled, loaded, notices, checked>>

\* views.request_service
RequestService(matched, sent) == FanOutView(matched, sent, MaxSessions)

\* views.start_negotiation (the routed, single-provider one)
StartNegotiation(p, max_price, min_acceptable) ==
    /\ pending = NoPending
    /\ min_acceptable <= max_price
    /\ TelegramChatId(p) # Null
    /\ ~ExistingActive(sessions, TelegramChatId(p))
    /\ Len(sessions) < MaxSessions
    /\ sessions' = Append(sessions, NewSession(TelegramChatId(p), max_price, min_acceptable))
    /\ buttons' = Append(buttons, 0)
    /\ UNCHANGED <<req, bookings, now, pending, scheduled, loaded, notices, checked>>

\* ------------------------------------------------- Telegram text handler

\* handle_negotiation_message, the `if price:` branch: the session after it.
TelegramOffer(s, text, price) ==
    LET saved == [s EXCEPT !.current_offer = price,
                           !.message_count = @ + 1,
                           !.conversation_history =
                               Append(@, [role |-> "provider", content |-> text])]
    IN IF price <= s.min_acceptable
       THEN [saved EXCEPT !.status = "completed", !.outcome = "agreed"]
       ELSE saved

\* handle_negotiation_message on the session it found: the row it leaves.
\* Without a price (None, or 0) it only replies and saves nothing.
TelegramHandled(s, text) ==
    IF Truthy(extract_price(text)) THEN TelegramOffer(s, text, extract_price(text))
    ELSE s

\* Whether the handler reaches send_negotiation_options.  Above max_price the
\* reply comes from get_ai_negotiation_response: the service's text when it
\* answers (aiOk), while its failure path multiplies a Decimal by a float and
\* the handler ends in that TypeError after the session was saved.
SendsOptions(s, price, aiOk) ==
    /\ price > s.min_acceptable
    /\ (price > s.max_price => aiOk)

\* TelegramNegotiationBot.handle_negotiation_message
HandleNegotiationMessage(chat, text, aiOk) ==
    /\ pending = NoPending
    /\ Inbound < MaxMsgs
    /\ LET sid == LatestActive(chat)
           price == extract_price(text)
       IN IF sid = 0 \/ ~Truthy(price)
          THEN UNCHANGED <<sessions, buttons>>
          ELSE /\ sessions' = [sessions EXCEPT ![sid] = TelegramHandled(@, text)]
               /\ buttons' = [buttons EXCEPT ![sid] =
                                 IF SendsOptions(sessions[sid], price, aiOk) THEN @ + 1 ELSE @]
    /\ UNCHANGED <<req, bookings, now, pending, scheduled, loaded, notices, checked>>

\* ------------------------------------------------ Telegram button callbacks
\* A callback carries the session id of a keyboard that was sent to `chat`;
\* query.edit_message_text then replaces that message, keyboard included.

\* send_negotiation_options replies in the chat of the session it is called
\* for: the keyboards that carry session sid are in that chat and nowhere
\* else.  A callback with that id from any other chat did not come from one
\* of them.
KeyboardIn(sid, chat) == sessions[sid].provider_phone = chat

\* mutant: the callback's lookup goes by the session id alone
ButtonSession_AnyChat(sid, chat) == IF sid \in SessionIds THEN sid ELSE 0

\* mutant: the callback's lookup finds no session
ButtonSession_None(sid, chat) == 0

\* NegotiationSession.objects.filter(id=session_id, provider_phone=chat_id).first()
ButtonSession(sid, chat) ==
    IF sid \in SessionIds /\ sessions[sid].provider_phone = chat THEN sid ELSE 0

\* TelegramNegotiationBot.handle_accept
HandleAccept(sid, chat) ==
    /\ pending = NoPending
    /\ sid \in SessionIds
    /\ KeyboardIn(sid, chat) => buttons[sid] > 0
    /\ buttons' = IF KeyboardIn(sid, chat) THEN [buttons EXCEPT ![sid] = @ - 1]
                  ELSE buttons
    /\ sessions' = IF ButtonSession(sid, chat) = 0 THEN sessions
                   ELSE [sessions EXCEPT ![sid].status = "completed",
                                         ![sid].outcome = "agreed"]
    /\ UNCHANGED <<req, bookings, now, pending, scheduled, loaded, notices, checked>>

\* TelegramNegotiationBot.handle_reject
HandleReject(sid, chat) ==
    /\ pending = NoPending
    /\ sid \in SessionIds
    /\ KeyboardIn(sid, chat) => buttons[sid] > 0
    /\ buttons' = IF KeyboardIn(sid, chat) THEN [buttons EXCEPT ![sid] = @ - 1]
                  ELSE buttons
    /\ sessions' = IF ButtonSession(sid, chat) = 0 THEN sessions
                   ELSE [sessions EXCEPT ![sid].status = "failed",
                                         ![sid].outcome = "no_deal"]
    /\ UNCHANGED <<req, bookings, now, pending, scheduled, loaded, notices, checked>>

\* TelegramNegotiationBot.handle_counter
HandleCounter(sid, chat) ==
    /\ pending = NoPending
    /\ sid \in SessionIds
    /\ KeyboardIn(sid, chat) => buttons[sid] > 0
    /\ buttons' = IF KeyboardIn(sid, chat) THEN [buttons EXCEPT ![sid] = @ - 1]
                  ELSE buttons
    /\ UNCHANGED <<req, sessions, bookings, now, pending, scheduled, loaded, notices, checked>>

\* ------------------------------------------------------ WhatsApp handler

\* finalize_negotiation(session, agreed_price, 'agreed')
finalize_negotiation(s, agreed_price) ==
    [s EXCEPT !.status = "completed", !.outcome = "agreed", !.current_offer = agreed_price]

\* Decimal(price_str) of the text after "DEAL ACCEPTED:"; Null when it raises.
AcceptedPrice(reply) ==
    IF reply = "DEAL ACCEPTED: 15" THEN 15 ELSE Null

\* process_provider_response up to, not including, its last add_message.
\* Gives [session, reply]: reply is the text that last add_message will
\* append, or NoReply when the handler has already returned (or raised).
ProviderResponse(s, text, ai) ==
    IF is_expired(s)
    THEN [session |-> [s EXCEPT !.status = "expired", !.outcome = "timeout"],
          reply |-> NoReply]
    ELSE LET s1 == add_message(s, "user", text)
             price == extract_price_from_message(text)
             s2 == IF Truthy(price) THEN [s1 EXCEPT !.current_offer = price] ELSE s1
         IN IF Truthy(price) /\ price <= s.min_acceptable
            THEN [session |-> finalize_negotiation(s2, price), reply |-> NoReply]
            ELSE IF ai = "error"
            THEN [session |-> s2, reply |-> NoReply]
            ELSE IF AcceptedPrice(ai) # Null
            THEN [session |-> finalize_negotiation(s2, AcceptedPrice(ai)), reply |-> NoReply]
            ELSE IF ai = "DEAL FAILED:"
            THEN [session |-> [s2 EXCEPT !.status = "failed", !.outcome = "no_deal"],
                  reply |-> ai]
            ELSE [session |-> s2, reply |-> ai]

\* whatsapp_negotiator.process_provider_response, through its last save
\* before the reply is appended
ProcessProviderResponse(phone, text, ai) ==
    /\ pending = NoPending
    /\ Inbound < MaxMsgs
    /\ LET sid == LatestActive(phone)
       IN IF sid = 0
          THEN UNCHANGED <<sessions, pending>>
          ELSE LET out == ProviderResponse(sessions[sid], text, ai)
               IN /\ sessions' = [sessions EXCEPT ![sid] = out.session]
                  /\ pending' = IF out.reply = NoReply THEN NoPending
                                ELSE [sid |-> sid, reply |-> out.reply]
    /\ UNCHANGED <<req, buttons, bookings, now, scheduled, loaded, notices, checked>>

\* process_provider_response, its last statement:
\* session.add_message('assistant', ai_response)
AppendReply ==
    /\ pending # NoPending
    /\ sessions' = [sessions EXCEPT ![pending.sid] = add_message(@, "assistant", pending.reply)]
    /\ pending' = NoPending
    /\ UNCHANGED <<req, buttons, bookings, now, scheduled, loaded, notices, checked>>

\* ------------------------------------------------- expiry / aggregation

\* mutant: only sessions past their expires_at are closed
ExpireActive_Overdue(ss) ==
    [i \in 1..Len(ss) |->
        IF ss[i].status = "active" /\ is_expired(ss[i])
        THEN [ss[i] EXCEPT !.status = "expired", !.outcome = "timeout"]
        ELSE ss[i]]

\* check_negotiation_status, its loop over sessions.filter(status='active')
ExpireActive(ss) ==
    [i \in 1..Len(ss) |->
        IF ss[i].status = "active"
        THEN [ss[i] EXCEPT !.status = "expired", !.outcome = "timeout"]
        ELSE ss[i]]

\* mutant: the offers counter is added to instead of recomputed
check_negotiation_status_Adds(r, ss) ==
    IF r.status \in {"ACCEPTED", "CANCELLED"}
    THEN [req |-> r, sessions |-> ss]
    ELSE LET closed == ExpireActive(ss)
             offers_count == CountAgreed(closed)
         IN [req |-> [r EXCEPT !.offers_received = @ + offers_count,
                               !.status = IF offers_count > 0 THEN "OFFERS_READY"
                                          ELSE "EXPIRED"],
             sessions |-> closed]

\* mutant: the run does not look at the request's status first
check_negotiation_status_NoGuard(r, ss) ==
    LET closed == ExpireActive(ss)
        offers_count == CountAgreed(closed)
    IN [req |-> [r EXCEPT !.offers_received = offers_count,
                          !.status = IF offers_count > 0 THEN "OFFERS_READY"
                                     ELSE "EXPIRED"],
        sessions |-> closed]

\* tasks.check_negotiation_status: the request and session rows after a run
check_negotiation_status(r, ss) ==
    IF r.status \in {"ACCEPTED", "CANCELLED"}
    THEN [req |-> r, sessions |-> ss]
    ELSE LET closed == ExpireActive(ss)
             offers_count == CountAgreed(closed)
         IN [req |-> [r EXCEPT !.offers_received = offers_count,
                               !.status = IF offers_count > 0 THEN "OFFERS_READY"
                                          ELSE "EXPIRED"],
             sessions |-> closed]

\* tasks.check_negotiation_status: the Notifications rows a run creates (one
\* for the customer, "Offers Ready" or "No Offers Received")
NotificationsCreated(r, ss) ==
    IF r.status \in {"ACCEPTED", "CANCELLED"} THEN 0 ELSE 1

\* The Expiry Scheduler's run (the Celery task check_negotiation_status)
CheckNegotiationStatus ==
    /\ pending = NoPending
    /\ LET out == check_negotiation_status(req, sessions)
       IN /\ req' = out.req
          /\ sessions' = out.sessions
    /\ UNCHANGED <<buttons, bookings, now, pending, scheduled, loaded, notices, checked>>

\* tasks.mark_offers_ready_if_complete
MarkOffersReadyIfComplete ==
    /\ pending = NoPending
    /\ req' = IF req.status # "NEGOTIATING" THEN req
              ELSE [req EXCEPT !.offers_received = CountAgreed(sessions),
                               !.status = IF CountAgreed(sessions) > 0
                                             /\ CountActive(sessions) = 0
                                          THEN "OFFERS_READY" ELSE @]
    /\ UNCHANGED <<sessions, buttons, bookings, now, pending, scheduled, loaded, notices, checked>>

\* ------------------------------------------------------- customer views

\* NewUser.objects.filter(telegram_chat_id=other.provider_phone).first(),
\* else by phone_number, and then `other_provider.telegram_chat_id`: whether
\* the provider behind a session can be written to on Telegram.
HasTelegram(identifier) == \E p \in Providers : TelegramChatId(p) = identifier

\* select_offer, what it sends: the selection notice for the chosen session
\* (Telegram message where the provider is linked, and the booking_confirmed
\* notification), then "selected another provider" to the Telegram-linked
\* provider of every other completed/agreed session, in query order.
SelectNotices(sid) ==
    LET others == SeqOf({i \in SessionIds \ {sid} :
                            Agreed(sessions[i]) /\ HasTelegram(sessions[i].provider_phone)})
    IN <<[session |-> sid, to |-> sessions[sid].provider_phone, kind |-> "selected"]>>
       \o [k \in 1..Len(others) |->
              [session |-> others[k], to |-> sessions[others[k]].provider_phone,
               kind |-> "not selected"]]

\* A session id that is not one of this request's sessions (a session of
\* another customer's request).
OtherSession == 0

\* mutant: the request is accepted but no Service row is created
SelectOffer_NoBooking(sid) ==
    /\ pending = NoPending
    /\ Len(bookings) < MaxBookings
    /\ req' = IF sid \in SessionIds /\ Agreed(sessions[sid])
              THEN [req EXCEPT !.selected_offer = sid, !.status = "ACCEPTED"]
              ELSE req
    /\ UNCHANGED <<sessions, buttons, bookings, now, pending, scheduled, loaded, notices, checked>>

\* views.select_offer: NegotiationSession.objects.get(id=session_id,
\* service_request=service_request) raises DoesNotExist for any other id.
SelectOffer(sid) ==
    /\ pending = NoPending
    /\ Len(bookings) < MaxBookings
    /\ IF sid \in SessionIds /\ Agreed(sessions[sid])
       THEN /\ req' = [req EXCEPT !.selected_offer = sid, !.status = "ACCEPTED"]
            /\ bookings' = Append(bookings,
                                  [session |-> sid,
                                   agreed_price |-> sessions[sid].current_offer])
            /\ notices' = notices \o SelectNotices(sid)
       ELSE UNCHANGED <<req, bookings, notices, checked>>
    /\ UNCHANGED <<sessions, buttons, now, pending, scheduled, loaded, checked>>

\* views.accept_negotiated_offer: the request is saved ACCEPTED, then
\* Service.objects.create(service_provider=service_request.service_provider)
\* raises (ServiceRequest has no such field) and no Service row is made.
AcceptNegotiatedOffer(sid) ==
    /\ pending = NoPending
    /\ req' = IF Agreed(sessions[sid]) /\ req.status # "ACCEPTED"
              THEN [req EXCEPT !.status = "ACCEPTED"]
              ELSE req
    /\ UNCHANGED <<sessions, buttons, bookings, now, pending, scheduled, loaded, notices, checked>>

\* views.reject_negotiated_offer
RejectNegotiatedOffer(sid) ==
    /\ pending = NoPending
    /\ sessions' = [sessions EXCEPT ![sid].status = "failed", ![sid].outcome = "cancelled"]
    /\ UNCHANGED <<req, buttons, bookings, now, pending, scheduled, loaded, notices, checked>>

\* mutant: the cancel does not look at the session's status first
CancelNegotiation_NoGuard(sid) ==
    /\ pending = NoPending
    /\ sessions' = [sessions EXCEPT ![sid].status = "completed",
                                     ![sid].outcome = "cancelled"]
    /\ UNCHANGED <<req, buttons, bookings, now, pending, scheduled, loaded, notices, checked>>

\* views.cancel_negotiation
CancelNegotiation(sid) ==
    /\ pending = NoPending
    /\ sessions' = IF sessions[sid].status # "active" THEN sessions
                   ELSE [sessions EXCEPT ![sid].status = "completed",
                                         ![sid].outcome = "cancelled"]
    /\ UNCHANGED <<req, buttons, bookings, now, pending, scheduled, loaded, notices, checked>>

Init ==
    /\ req \in [status : {"PENDING"}, customer_budget : Budgets,
                providers_contacted : {0}, offers_received : {0},
                selected_offer : {Null}]
    /\ sessions = <<>>
    /\ buttons = <<>>
    /\ bookings = <<>>
    /\ now = 0
    /\ pending = NoPending
    /\ scheduled = 0
    /\ loaded = <<>>
    /\ notices = <<>>
    /\ checked = <<>>

Tick ==
    /\ pending = NoPending
    /\ now < MaxTime
    /\ now' = now + SessionHours + 1
    /\ UNCHANGED <<req, sessions, buttons, bookings, pending, scheduled, loaded, notices, checked>>

\* The multi-provider engine as routed in urls.py, with the Telegram bot and
\* the Celery tasks.
Next ==
    \/ \E matched \in MatchLists, sent \in SUBSET Providers :
          NegotiateWithProviders(matched, sent)
    \/ \E matched \in MatchLists, sent \in SUBSET Providers :
          RequestService(matched, sent)
    \/ \E p \in Providers, sp \in StartPrices : StartNegotiation(p, sp[1], sp[2])
    \/ \E p \in Providers, text \in Texts, aiOk \in BOOLEAN :
          HandleNegotiationMessage(TelegramChatId(p), text, aiOk)
    \/ \E sid \in SessionIds : HandleAccept(sid, sessions[sid].provider_phone)
    \/ \E sid \in SessionIds : HandleReject(sid, sessions[sid].provider_phone)
    \/ \E sid \in SessionIds : HandleCounter(sid, sessions[sid].provider_phone)
    \/ CheckNegotiationStatus
    \/ MarkOffersReadyIfComplete
    \/ \E sid \in SessionIds \cup {OtherSession} : SelectOffer(sid)
    \/ \E sid \in SessionIds : CancelNegotiation(sid)

Spec == Init /\ [][Next]_vars

\* The WhatsApp flow (whatsapp_negotiator and the views written for it) on
\* the sessions the fan-out task opens for phone-only providers, with the
\* clock its expiry check reads.
NextWhatsApp ==
    \/ Tick
    \/ \E matched \in MatchLists, sent \in SUBSET Providers :
          NegotiateWithProviders(matched, sent)
    \/ \E p \in Providers, text \in Texts, ai \in AIReplies :
          ProcessProviderResponse(PhoneNumber(p), text, ai)
    \/ AppendReply
    \/ CheckNegotiationStatus
    \/ \E sid \in SessionIds \cup {OtherSession} : SelectOffer(sid)
    \/ \E sid \in SessionIds : AcceptNegotiatedOffer(sid)
    \/ \E sid \in SessionIds : RejectNegotiatedOffer(sid)

SpecWhatsApp == Init /\ [][NextWhatsApp]_vars

\* The fan-out alone, on match lists longer than the fan-out limit: the
\* matcher returns the nearest n providers (nobody, one, as many as the limit,
\* or all of them), the transport reaches all of them or none, and an expiry
\* run closes what a fan-out opened.
ManyProviders == 1..NMatched

MatchPrefixes == {SeqOf(1..n) : n \in {0, 1, FanOutLimit, NMatched}}

InitFanOut ==
    /\ req \in [status : {"PENDING"}, customer_budget : RequestBudgets,
                providers_contacted : {0}, offers_received : {0},
                selected_offer : {Null}]
    /\ sessions = <<>>
    /\ buttons = <<>>
    /\ bookings = <<>>
    /\ now = 0
    /\ pending = NoPending
    /\ scheduled = 0
    /\ loaded = <<>>
    /\ notices = <<>>
    /\ checked = <<>>

NextFanOut ==
    \/ \E matched \in MatchPrefixes, sent \in {{}, ManyProviders} :
          FanOutTask(matched, sent, MaxRows)
    \/ \E matched \in MatchPrefixes, sent \in {{}, ManyProviders} :
          FanOutView(matched, sent, MaxRows)
    \/ CheckNegotiationStatus

SpecFanOut == InitFanOut /\ [][NextFanOut]_vars

\* ------------------------------------------------ the Celery queue
\* check_negotiation_status is a @shared_task: a run enters the queue only
\* when some caller sends it (delay / apply_async), and the worker executes
\* what is queued.  No view, handler or task of the application sends it.

\* check_negotiation_status.delay(request_id), by a caller outside the
\* application code (a shell, another service)
EnqueueCheck ==
    /\ pending = NoPending
    /\ scheduled < MaxScheduled
    /\ scheduled' = scheduled + 1
    /\ UNCHANGED <<req, sessions, buttons, bookings, now, pending, loaded, notices, checked>>

\* The Celery worker takes a queued check_negotiation_status run and
\* executes it.
RunScheduled ==
    /\ pending = NoPending
    /\ scheduled > 0
    /\ scheduled' = scheduled - 1
    /\ LET out == check_negotiation_status(req, sessions)
       IN /\ req' = out.req
          /\ sessions' = out.sessions
    /\ UNCHANGED <<buttons, bookings, now, pending, loaded, notices, checked>>

\* The engine with its background queue: fan-out and provider messages come
\* from outside and may stop coming; what is in the queue is executed.
NextLive ==
    \/ \E matched \in MatchLists, sent \in SUBSET Providers :
          NegotiateWithProviders(matched, sent)
    \/ \E matched \in MatchLists, sent \in SUBSET Providers :
          RequestService(matched, sent)
    \/ \E p \in Providers, text \in Texts, aiOk \in BOOLEAN :
          HandleNegotiationMessage(TelegramChatId(p), text, aiOk)
    \/ EnqueueCheck
    \/ RunScheduled

SpecLive == Init /\ [][NextLive]_vars /\ WF_vars(RunScheduled)

\* The inbound handlers of both transports on the sessions one fan-out task
\* opens (chat-id sessions for Telegram, phone sessions for WhatsApp), with
\* the clock and the expiry run.
NextInbound ==
    \/ Tick
    \/ \E matched \in MatchLists, sent \in SUBSET Providers :
          NegotiateWithProviders(matched, sent)
    \/ \E p \in Providers, text \in InboundTexts, aiOk \in BOOLEAN :
          HandleNegotiationMessage(TelegramChatId(p), text, aiOk)
    \/ \E p \in Providers, text \in InboundTexts, ai \in InboundReplies :
          ProcessProviderResponse(PhoneNumber(p), text, ai)
    \/ AppendReply
    \/ CheckNegotiationStatus

SpecInbound == Init /\ [][NextInbound]_vars

\* ------------------------------------- WhatsApp handlers side by side
\* process_provider_response runs in the web server's request workers: each
\* call fetches its own NegotiationSession object, works on that object and
\* writes it back with Model.save(), which stores every column of the row.
\* Nothing (select_for_update, transaction.atomic, a lock) orders two calls.

\* The replies the chat completion gives in these runs.
HandlerReplies == {"plain", "DEAL FAILED:"}

\* The messages two providers' phones deliver in these runs.
HandlerTexts == {"7", "15"}

\* process_provider_response, its query: the handler now holds the row.
LoadSession(phone, text) ==
    /\ pending = NoPending
    /\ Len(loaded) < MaxHandlers
    /\ Inbound + Len(loaded) < MaxMsgs
    /\ LatestActive(phone) # 0
    /\ loaded' = Append(loaded, [sid |-> LatestActive(phone),
                                  row |-> sessions[LatestActive(phone)],
                                  text |-> text])
    /\ UNCHANGED <<req, sessions, buttons, bookings, now, pending, scheduled, notices, checked>>

\* The row a handler leaves in the table: everything it did to its own
\* object, the reply it appended last included.
HandlerRow(row, text, ai) ==
    LET out == ProviderResponse(row, text, ai)
    IN IF out.reply = NoReply THEN out.session
       ELSE add_message(out.session, "assistant", out.reply)

\* All but the k-th element.
Without(seq, k) == SubSeq(seq, 1, k - 1) \o SubSeq(seq, k + 1, Len(seq))

\* process_provider_response from its expiry check to its return, for the
\* k-th handler that holds a row: its saves write that object over the row.
SaveSession(k, ai) ==
    /\ pending = NoPending
    /\ k \in 1..Len(loaded)
    /\ sessions' = [sessions EXCEPT ![loaded[k].sid] =
                        HandlerRow(loaded[k].row, loaded[k].text, ai)]
    /\ loaded' = Without(loaded, k)
    /\ UNCHANGED <<req, buttons, bookings, now, pending, scheduled, notices, checked>>

NextConcurrent ==
    \/ Tick
    \/ \E matched \in MatchLists, sent \in SUBSET Providers :
          NegotiateWithProviders(matched, sent)
    \/ \E p \in Providers, text \in HandlerTexts : LoadSession(PhoneNumber(p), text)
    \/ \E k \in 1..MaxHandlers, ai \in HandlerReplies : SaveSession(k, ai)

SpecConcurrent == Init /\ [][NextConcurrent]_vars

\* ------------------------------ Telegram handler beside the expiry run
\* The bot (run_telegram_bot) and the Celery worker are separate processes
\* on one database.  handle_negotiation_message fetches its session object,
\* awaits the provider lookup, and then saves that object, every column of
\* it; check_negotiation_status can run in between.

\* handle_negotiation_message, its query
LoadTelegram(chat, text) ==
    /\ pending = NoPending
    /\ Len(loaded) < MaxHandlers
    /\ Inbound + Len(loaded) < MaxMsgs
    /\ LatestActive(chat) # 0
    /\ loaded' = Append(loaded, [sid |-> LatestActive(chat),
                                  row |-> sessions[LatestActive(chat)],
                                  text |-> text])
    /\ UNCHANGED <<req, sessions, buttons, bookings, now, pending, scheduled, notices, checked>>

\* handle_negotiation_message from extract_price to its return, for the k-th
\* handler that holds a row: with a price its saves write that object over
\* the row, without one it saves nothing.
SaveTelegram(k, aiOk) ==
    /\ pending = NoPending
    /\ k \in 1..Len(loaded)
    /\ LET sid == loaded[k].sid
           row == loaded[k].row
           text == loaded[k].text
           price == extract_price(text)
       IN IF ~Truthy(price)
          THEN UNCHANGED <<sessions, buttons>>
          ELSE /\ sessions' = [sessions EXCEPT ![sid] = TelegramHandled(row, text)]
               /\ buttons' = [buttons EXCEPT ![sid] =
                                 IF SendsOptions(row, price, aiOk) THEN @ + 1 ELSE @]
    /\ loaded' = Without(loaded, k)
    /\ UNCHANGED <<req, bookings, now, pending, scheduled, notices, checked>>

NextRace ==
    \/ \E matched \in MatchLists, sent \in SUBSET Providers :
          NegotiateWithProviders(matched, sent)
    \/ \E p \in Providers, text \in Texts : LoadTelegram(TelegramChatId(p), text)
    \/ \E k \in 1..MaxHandlers, aiOk \in BOOLEAN : SaveTelegram(k, aiOk)
    \/ CheckNegotiationStatus

SpecRace == Init /\ [][NextRace]_vars

\* ------------------------------------------------- who is calling
\* The authenticated users of the customer views: the request's customer
\* and another account.
Owner == "customer"
Users == {Owner, "other user"}

\* The Telegram chats a callback can come from: the providers' linked chats
\* and the chat of somebody who is no provider of this request.
StrangerChat == 9
Chats == {TelegramChatId(p) : p \in {q \in Providers : TelegramChatId(q) # Null}}
             \cup {StrangerChat}

\* views.start_negotiation as `caller`: ServiceRequest.objects.get(id=...)
\* has its customer=request.user filter commented out, so the caller is
\* never compared with anything.
StartNegotiationBy(caller, p, max_price, min_acceptable) ==
    StartNegotiation(p, max_price, min_acceptable)

\* views.select_offer as `caller`: ServiceRequest.objects.get(id=...,
\* customer=request.user) raises DoesNotExist for anyone else (404).
SelectOfferBy(caller, sid) ==
    IF caller = Owner THEN SelectOffer(sid)
    ELSE pending = NoPending /\ UNCHANGED vars

\* views.cancel_negotiation as `caller`: 403 unless
\* session.service_request.customer == request.user.
CancelNegotiationBy(caller, sid) ==
    IF caller = Owner THEN CancelNegotiation(sid)
    ELSE pending = NoPending /\ UNCHANGED vars

\* The customer views with their callers, and the button callbacks with the
\* chats they come from.
NextAccess ==
    \/ \E matched \in MatchLists, sent \in SUBSET Providers :
          NegotiateWithProviders(matched, sent)
    \/ \E caller \in Users, p \in Providers, sp \in StartPrices :
          StartNegotiationBy(caller, p, sp[1], sp[2])
    \/ \E p \in Providers, text \in Texts, aiOk \in BOOLEAN :
          HandleNegotiationMessage(TelegramChatId(p), text, aiOk)
    \/ \E sid \in SessionIds, chat \in Chats : HandleAccept(sid, chat)
    \/ \E sid \in SessionIds, chat \in Chats : HandleReject(sid, chat)
    \/ \E sid \in SessionIds, chat \in Chats : HandleCounter(sid, chat)
    \/ \E caller \in Users, sid \in SessionIds \cup {OtherSession} :
          SelectOfferBy(caller, sid)
    \/ \E caller \in Users, sid \in SessionIds : CancelNegotiationBy(caller, sid)

SpecAccess == Init /\ [][NextAccess]_vars

\* ------------------------------------------- fan-outs side by side
\* Two executions of the fan-out for one request (the task delivered twice,
\* the task beside start_negotiation) each run
\*     existing = filter(..., status='active').first()
\*     if existing: continue / return 400
\*     NegotiationSession.objects.create(...)
\* with nothing between the query and the insert that the other execution
\* has to wait for, and the table has no unique constraint on
\* (service_request, provider_phone).  Each execution here has matched the
\* one provider p.

\* negotiate_with_providers for the match list <<p>>, through its
\* existing-session check: with a session found it skips p and finishes
\* with sessions_created = 0.
PassCheck(p) ==
    /\ pending = NoPending
    /\ Len(checked) < MaxHandlers
    /\ Len(sessions) + Len(checked) < MaxSessions
    /\ IF ExistingActive(sessions, ProviderIdentifier(p))
       THEN /\ req' = TaskRequest(req, <<p>>, 0)
            /\ UNCHANGED checked
       ELSE /\ checked' = Append(checked, p)
            /\ UNCHANGED req
    /\ UNCHANGED <<sessions, buttons, bookings, now, pending, scheduled, loaded, notices>>

\* negotiate_with_providers from the create to its return, for the k-th
\* execution that has passed the check.
CreateChecked(k) ==
    /\ pending = NoPending
    /\ k \in 1..Len(checked)
    /\ sessions' = Append(sessions,
                          NewSession(ProviderIdentifier(checked[k]), req.customer_budget,
                                     MinAcceptable(req.customer_budget)))
    /\ buttons' = Append(buttons, 0)
    /\ req' = TaskRequest(req, <<checked[k]>>, 1)
    /\ checked' = Without(checked, k)
    /\ UNCHANGED <<bookings, now, pending, scheduled, loaded, notices>>

NextFanRace ==
    \/ \E p \in Providers : PassCheck(p)
    \/ \E k \in 1..MaxHandlers : CreateChecked(k)
    \/ \E p \in Providers, text \in Texts, aiOk \in BOOLEAN :
          HandleNegotiationMessage(TelegramChatId(p), text, aiOk)
    \/ CheckNegotiationStatus
    \/ Tick

SpecFanRace == Init /\ [][NextFanRace]_vars

\* ===================================================================
\* Claims
\* ===================================================================

\* C1 -- Budget invariant: every session with outcome = agreed has
\* current_offer <= max_price.
C1_BudgetInvariant ==
    \A sid \in SessionIds :
        sessions[sid].outcome = "agreed" =>
            sessions[sid].current_offer <= sessions[sid].max_price

\* A WhatsApp message `text` is handled for session sid in this step.
WhatsAppHandles(sid, text) ==
    \E p \in Providers, ai \in AIReplies :
        /\ LatestActive(PhoneNumber(p)) = sid
        /\ ProcessProviderResponse(PhoneNumber(p), text, ai)

\* C2 -- Threshold correctness: when a message with parsed offer p is handled
\* for an active, non-expired session, p <= min_acceptable leaves the session
\* completed/agreed with current_offer = p, and p > max_price never leaves
\* it completed/agreed.
C2_ThresholdCorrectness ==
    [][\A sid \in SessionIds, text \in Texts :
          (WhatsAppHandles(sid, text) /\ ~is_expired(sessions[sid])) =>
              LET p == extract_price_from_message(text)
                  before == sessions[sid]
                  after == sessions'[sid]
              IN /\ (p # Null /\ p <= before.min_acceptable) =>
                        (Agreed(after) /\ after.current_offer = p)
                 /\ (p # Null /\ p > before.max_price) => ~Agreed(after)]_vars

\* C3 -- Idempotent fan-out: no two sessions of the request with the same
\* provider identity are active at the same time, however often the fan-out
\* runs.
C3_NoDuplicateActive ==
    \A i \in SessionIds, j \in SessionIds :
        (i # j /\ sessions[i].status = "active" /\ sessions[j].status = "active")
            => sessions[i].provider_phone # sessions[j].provider_phone

\* C3 witness: a provider whose first session was closed was given a new one
\* by a later fan-out, and that one is active.
C3_Witness ==
    \E i \in SessionIds, j \in SessionIds :
        /\ i < j
        /\ sessions[i].provider_phone = sessions[j].provider_phone
        /\ sessions[i].status # "active"
        /\ sessions[j].status = "active"
        /\ req.status = "NEGOTIATING"

\* C4 -- Monotone counters: providers_contacted and offers_received never
\* decrease from one state to the next.
C4_MonotoneCounters ==
    [][/\ req'.providers_contacted >= req.providers_contacted
       /\ req'.offers_received >= req.offers_received]_vars

\* C5 -- Expiry idempotence: from any reachable state, running the Expiry
\* Scheduler twice leaves the same request and session rows as running it
\* once.
C5_ExpiryIdempotent ==
    LET once == check_negotiation_status(req, sessions)
        twice == check_negotiation_status(once.req, once.sessions)
    IN twice = once

\* C5 witness: a scheduler run has closed a straggler and counted an offer.
C5_Witness ==
    /\ req.status = "OFFERS_READY"
    /\ req.offers_received = 1
    /\ \E sid \in SessionIds :
          sessions[sid].status = "expired" /\ sessions[sid].outcome = "timeout"
    /\ \E sid \in SessionIds : Agreed(sessions[sid])

\* C6 -- Selection exclusivity: once select_offer has succeeded, a further
\* select_offer call changes neither the request nor the bookings.
C6_SelectionExclusive ==
    [][\A sid \in SessionIds :
          (req.selected_offer # Null /\ SelectOffer(sid)) =>
              UNCHANGED <<req, bookings>>]_vars

Rank(status) ==
    CASE status = "PENDING" -> 0
      [] status = "NEGOTIATING" -> 1
      [] status \in {"OFFERS_READY", "EXPIRED"} -> 2
      [] status \in {"ACCEPTED", "CANCELLED"} -> 3

\* C7 -- Request status only moves forward along
\* PENDING -> NEGOTIATING -> {OFFERS_READY | EXPIRED} -> ACCEPTED (or to
\* CANCELLED): it never moves to an earlier stage, nor between OFFERS_READY
\* and EXPIRED.
C7_StatusForward ==
    [][req'.status = req.status \/ Rank(req'.status) > Rank(req.status)]_vars

\* C8 -- selected_offer is set at most once: once non-null it never changes.
C8_SelectedOnce ==
    [][req.selected_offer # Null =>
          req'.selected_offer = req.selected_offer]_vars

\* C9 -- Once a session's status is not active, no step changes its
\* current_offer, counter_offer or conversation_history.
C9_ClosedSessionFrozen ==
    [][\A sid \in SessionIds :
          sessions[sid].status # "active" =>
              /\ sessions'[sid].current_offer = sessions[sid].current_offer
              /\ sessions'[sid].counter_offer = sessions[sid].counter_offer
              /\ sessions'[sid].conversation_history =
                     sessions[sid].conversation_history]_vars

\* C10 -- Session transitions are monotone: once a session's status is
\* completed, failed or expired, no step changes its status or outcome.
C10_SessionMonotone ==
    [][\A sid \in SessionIds :
          sessions[sid].status # "active" =>
              /\ sessions'[sid].status = sessions[sid].status
              /\ sessions'[sid].outcome = sessions[sid].outcome]_vars

\* C11 -- Every session satisfies min_acceptable <= max_price, for every
\* customer_budget that request creation accepts, in every reachable state.
C11_MinBelowMax ==
    \A sid \in SessionIds :
        sessions[sid].min_acceptable <= sessions[sid].max_price

\* C12 -- Every session's max_price equals the customer_budget of its
\* request: in every reachable state all sessions share max_price =
\* req.customer_budget.
C12_MaxPriceIsBudget ==
    \A sid \in SessionIds : sessions[sid].max_price = req.customer_budget

\* A fan-out run (the task or the request_service view) is this step.
FanOutStep ==
    \E matched \in MatchLists, sent \in SUBSET Providers :
        NegotiateWithProviders(matched, sent) \/ RequestService(matched, sent)

\* C13 -- When a fan-out run finishes, providers_contacted is the number of
\* sessions that run created, and the request is NEGOTIATING when that number
\* is at least 1 and EXPIRED otherwise.
C13_FanOutCounts ==
    [][FanOutStep =>
          LET n == Len(sessions') - Len(sessions)
          IN /\ req'.providers_contacted = n
             /\ req'.status = IF n >= 1 THEN "NEGOTIATING" ELSE "EXPIRED"]_vars

\* C15 -- Sessions exist only for providers with a linked chat id: every
\* session's provider identity is the telegram_chat_id of some provider.
C15_SessionsOnlyForLinked ==
    \A sid \in SessionIds :
        \E p \in Providers : TelegramChatId(p) = sessions[sid].provider_phone

\* C16 -- A session whose initial inquiry could not be sent ends the fan-out
\* run failed/no_deal: after a run in which the transport did not reach
\* provider p, a session the run created for p's chat id is not left active.
C16_SendFailureFails ==
    [][\A matched \in MatchLists, sent \in SUBSET Providers :
          (NegotiateWithProviders(matched, sent) \/ RequestService(matched, sent)) =>
              \A sid \in (Len(sessions) + 1)..Len(sessions') :
                  (\E p \in Providers \ sent :
                        TelegramChatId(p) = sessions'[sid].provider_phone) =>
                      /\ sessions'[sid].status = "failed"
                      /\ sessions'[sid].outcome = "no_deal"]_vars

\* C14 -- Fan-out cap: a single fan-out run (the task or the request_service
\* view) creates at most FanOutLimit sessions, however many providers were
\* matched.
C14_FanOutCap ==
    [][\A matched \in MatchPrefixes, sent \in {{}, ManyProviders} :
          (FanOutTask(matched, sent, MaxRows) \/ FanOutView(matched, sent, MaxRows)) =>
              Len(sessions') - Len(sessions) <= FanOutLimit]_vars

\* C17 -- Running the Expiry Scheduler on a request that is ACCEPTED or
\* CANCELLED changes nothing: the request row and every session row (active
\* ones included) stay as they are and no notification is created.
C17_SettledRequestUntouched ==
    req.status \in {"ACCEPTED", "CANCELLED"} =>
        /\ check_negotiation_status(req, sessions) = [req |-> req, sessions |-> sessions]
        /\ NotificationsCreated(req, sessions) = 0

\* C17 witness: an accepted request that still has an active session.
C17_Witness ==
    /\ req.status = "ACCEPTED"
    /\ req.selected_offer # Null
    /\ \E sid \in SessionIds : sessions[sid].status = "active"

\* C18 -- After an Expiry Scheduler run on a request that is neither ACCEPTED
\* nor CANCELLED no session is active: each session that was active is
\* expired/timeout, each other session keeps its status, outcome and prices.
C18_ExpiryClosesActive ==
    req.status \notin {"ACCEPTED", "CANCELLED"} =>
        LET after == check_negotiation_status(req, sessions).sessions
        IN /\ Len(after) = Len(sessions)
           /\ \A sid \in SessionIds :
                 /\ after[sid].status # "active"
                 /\ sessions[sid].status = "active" =>
                       (after[sid].status = "expired" /\ after[sid].outcome = "timeout")
                 /\ sessions[sid].status # "active" =>
                       /\ after[sid].status = sessions[sid].status
                       /\ after[sid].outcome = sessions[sid].outcome
                       /\ after[sid].current_offer = sessions[sid].current_offer
                       /\ after[sid].counter_offer = sessions[sid].counter_offer

\* C18 witness: a run has closed a straggler next to a session the provider
\* had already rejected, whose offer is still recorded.
C18_Witness ==
    /\ req.status = "EXPIRED"
    /\ CountActive(sessions) = 0
    /\ \E sid \in SessionIds :
          sessions[sid].status = "expired" /\ sessions[sid].outcome = "timeout"
    /\ \E sid \in SessionIds :
          /\ sessions[sid].status = "failed"
          /\ sessions[sid].outcome = "no_deal"
          /\ sessions[sid].current_offer # Null

\* C19 -- After an Expiry Scheduler run on a request that is neither ACCEPTED
\* nor CANCELLED, offers_received is the number of completed/agreed sessions,
\* and the request is OFFERS_READY when that number is at least 1 and
\* EXPIRED when it is 0.
C19_ExpiryCountsOffers ==
    req.status \notin {"ACCEPTED", "CANCELLED"} =>
        LET out == check_negotiation_status(req, sessions)
            offers == Cardinality({sid \in 1..Len(out.sessions) :
                                      /\ out.sessions[sid].status = "completed"
                                      /\ out.sessions[sid].outcome = "agreed"})
        IN /\ out.req.offers_received = offers
           /\ out.req.status = IF offers >= 1 THEN "OFFERS_READY" ELSE "EXPIRED"

\* C19 witness: a run has counted one offer beside a session the customer
\* had cancelled (completed, but not agreed).
C19_Witness ==
    /\ req.status = "OFFERS_READY"
    /\ req.offers_received = 1
    /\ CountActive(sessions) = 0
    /\ \E sid \in SessionIds :
          sessions[sid].status = "completed" /\ sessions[sid].outcome = "cancelled"

\* C20 -- Liveness: once a fan-out has left the request NEGOTIATING with an
\* active session, the request eventually leaves NEGOTIATING and eventually
\* no session is active, even when no provider or customer input follows.
C20_EventuallySettled ==
    /\ (req.status = "NEGOTIATING" /\ CountActive(sessions) > 0)
           ~> (req.status # "NEGOTIATING")
    /\ (req.status = "NEGOTIATING" /\ CountActive(sessions) > 0)
           ~> (CountActive(sessions) = 0)

\* C21 -- An inbound message from a provider identity that has no active
\* session changes nothing, on either transport: the request, the session
\* rows and the bookings stay as they were.
C21_NoSessionNoChange ==
    [][\A p \in Providers, text \in InboundTexts :
          /\ \A aiOk \in BOOLEAN :
                (/\ \A sid \in SessionIds :
                       ~(sessions[sid].provider_phone = TelegramChatId(p)
                         /\ sessions[sid].status = "active")
                 /\ HandleNegotiationMessage(TelegramChatId(p), text, aiOk))
                    => UNCHANGED <<req, sessions, bookings>>
          /\ \A ai \in InboundReplies :
                (/\ \A sid \in SessionIds :
                       ~(sessions[sid].provider_phone = PhoneNumber(p)
                         /\ sessions[sid].status = "active")
                 /\ ProcessProviderResponse(PhoneNumber(p), text, ai))
                    => UNCHANGED <<req, sessions, bookings>>]_vars

\* C21 witness: a provider whose only session was closed after it had taken
\* a message can still write in, and the handler has room to act.
C21_Witness ==
    /\ Inbound < MaxMsgs
    /\ pending = NoPending
    /\ \E sid \in SessionIds :
          /\ sessions[sid].status = "expired"
          /\ sessions[sid].message_count > 0
          /\ ActiveFor(sessions, sessions[sid].provider_phone) = {}

\* What C22 asks of a session row after a late message: closed as
\* expired/timeout, with its prices and history as they were.
ClosedAsTimeout(before, after) ==
    /\ after.status = "expired"
    /\ after.outcome = "timeout"
    /\ after.current_offer = before.current_offer
    /\ after.counter_offer = before.counter_offer
    /\ after.conversation_history = before.conversation_history

\* C22 -- A message that arrives for an active session after its expires_at
\* is not processed as an offer, whichever transport delivered it: the
\* session becomes expired/timeout and its price fields and history are
\* unchanged (so that message cannot make it completed/agreed).
C22_LateMessageExpires ==
    [][\A p \in Providers, text \in InboundTexts :
          /\ \A aiOk \in BOOLEAN :
                LET sid == LatestActive(TelegramChatId(p))
                IN (/\ sid # 0
                    /\ is_expired(sessions[sid])
                    /\ HandleNegotiationMessage(TelegramChatId(p), text, aiOk))
                       => ClosedAsTimeout(sessions[sid], sessions'[sid])
          /\ \A ai \in InboundReplies :
                LET sid == LatestActive(PhoneNumber(p))
                IN (/\ sid # 0
                    /\ is_expired(sessions[sid])
                    /\ ProcessProviderResponse(PhoneNumber(p), text, ai))
                       => ClosedAsTimeout(sessions[sid], sessions'[sid])]_vars

\* h is an initial part of g.
IsPrefix(h, g) == Len(h) <= Len(g) /\ SubSeq(g, 1, Len(h)) = h

C24_HandlersSerializable ==
    [][\A k \in 1..Len(loaded), ai \in HandlerReplies :
          SaveSession(k, ai) =>
              LET before == sessions[loaded[k].sid]
                  after == sessions'[loaded[k].sid]
              IN /\ IsPrefix(before.conversation_history, after.conversation_history)
                 /\ after.message_count >= before.message_count]_vars

\* The counter-offer C25 names for a quote p above min_acceptable: the
\* midpoint up to max_price, min(max_price, 0.85 p) above it (whole rupees).
ClaimedCounter(p, s) ==
    IF p <= s.max_price THEN (p + s.min_acceptable) \div 2
    ELSE IF (85 * p) \div 100 < s.max_price THEN (85 * p) \div 100
         ELSE s.max_price

\* What C25 asks of the session row after a quote p above min_acceptable.
CounteredAt(p, before, after) ==
    /\ after.status = "active"
    /\ after.current_offer = p
    /\ after.counter_offer = ClaimedCounter(p, before)

\* C25 -- When a quote p > min_acceptable is handled on an active session,
\* the session stays active with current_offer = p and counter_offer set to
\* the evaluator's value: (p + min_acceptable) / 2 when p <= max_price, and
\* min(max_price, 0.85 p) when p > max_price.
C25_CounterOfferRecorded ==
    [][\A p \in Providers, text \in InboundTexts :
          /\ \A aiOk \in BOOLEAN :
                LET sid == LatestActive(TelegramChatId(p))
                    price == extract_price(text)
                IN (/\ sid # 0
                    /\ price > sessions[sid].min_acceptable
                    /\ HandleNegotiationMessage(TelegramChatId(p), text, aiOk))
                       => CounteredAt(price, sessions[sid], sessions'[sid])
          /\ \A ai \in InboundReplies :
                LET sid == LatestActive(PhoneNumber(p))
                    price == extract_price_from_message(text)
                IN (/\ sid # 0
                    /\ ~is_expired(sessions[sid])
                    /\ price > sessions[sid].min_acceptable
                    /\ ProcessProviderResponse(PhoneNumber(p), text, ai))
                       => CounteredAt(price, sessions[sid], sessions'[sid])]_vars

\* C26 -- Every counter-offer the system proposes in a session is at most
\* the session's max_price and at most the provider's last quoted price: a
\* reply that names a price, when it is sent and recorded, names one within
\* both limits.
C26_CounterWithinLimits ==
    [][(AppendReply /\ CounterIn(pending.reply) # Null) =>
          LET s == sessions[pending.sid]
          IN /\ CounterIn(pending.reply) <= s.max_price
             /\ s.current_offer # Null => CounterIn(pending.reply) <= s.current_offer]_vars

\* What C27 asks of the session row after a message without a price.
PricesUntouched(before, after) ==
    /\ after.status = "active"
    /\ after.current_offer = before.current_offer
    /\ after.counter_offer = before.counter_offer

\* C27 -- Handling a message from which no price can be extracted leaves the
\* session active and leaves current_offer and counter_offer unchanged, on
\* either transport.
C27_NoPriceNoChange ==
    [][\A p \in Providers, text \in InboundTexts :
          /\ \A aiOk \in BOOLEAN :
                LET sid == LatestActive(TelegramChatId(p))
                IN (/\ sid # 0
                    /\ extract_price(text) = Null
                    /\ HandleNegotiationMessage(TelegramChatId(p), text, aiOk))
                       => PricesUntouched(sessions[sid], sessions'[sid])
          /\ \A ai \in InboundReplies :
                LET sid == LatestActive(PhoneNumber(p))
                IN (/\ sid # 0
                    /\ ~is_expired(sessions[sid])
                    /\ extract_price_from_message(text) = Null
                    /\ ProcessProviderResponse(PhoneNumber(p), text, ai))
                       => PricesUntouched(sessions[sid], sessions'[sid])]_vars

\* C28 -- For an active session the provider's buttons have exactly these
\* effects: accept makes the session completed/agreed, reject makes it
\* failed/no_deal, counter changes no session (it only asks for a new
\* price); nothing else of the session rows or the request changes.
C28_ButtonEffects ==
    [][\A sid \in SessionIds :
          sessions[sid].status = "active" =>
              /\ HandleAccept(sid, sessions[sid].provider_phone) =>
                    /\ sessions' = [sessions EXCEPT ![sid].status = "completed",
                                                     ![sid].outcome = "agreed"]
                    /\ req' = req
              /\ HandleReject(sid, sessions[sid].provider_phone) =>
                    /\ sessions' = [sessions EXCEPT ![sid].status = "failed",
                                                     ![sid].outcome = "no_deal"]
                    /\ req' = req
              /\ HandleCounter(sid, sessions[sid].provider_phone) =>
                    /\ sessions' = sessions
                    /\ req' = req]_vars

\* C28 witness: one provider accepted a quote that was above the auto-accept
\* threshold, another rejected after quoting.
C28_Witness ==
    /\ \E sid \in SessionIds :
          /\ sessions[sid].status = "completed"
          /\ sessions[sid].outcome = "agreed"
          /\ sessions[sid].current_offer > sessions[sid].min_acceptable
    /\ \E sid \in SessionIds :
          /\ sessions[sid].status = "failed"
          /\ sessions[sid].outcome = "no_deal"
          /\ sessions[sid].current_offer # Null

\* C29 -- select_offer with a session that does not belong to the request,
\* or whose status/outcome is not completed/agreed, is rejected and changes
\* nothing: the request's status and selected_offer stay as they were and no
\* booking is created.
C29_BadSelectionRejected ==
    [][\A sid \in SessionIds \cup {OtherSession} :
          (/\ \/ sid \notin SessionIds
              \/ sessions[sid].status # "completed"
              \/ sessions[sid].outcome # "agreed"
           /\ SelectOffer(sid))
              => UNCHANGED <<req, bookings>>]_vars

\* C29 witness: offers are ready, nothing is selected yet, and next to the
\* agreed session there is one the customer cancelled (completed, not
\* agreed) that a select_offer call can name.
C29_Witness ==
    /\ req.status = "OFFERS_READY"
    /\ req.selected_offer = Null
    /\ bookings = <<>>
    /\ pending = NoPending
    /\ \E sid \in SessionIds :
          sessions[sid].status = "completed" /\ sessions[sid].outcome = "cancelled"

\* C30 -- A successful select_offer sets the request to ACCEPTED with
\* selected_offer = the chosen session and creates one booking whose agreed
\* price equals that session's current_offer.
C30_SelectionBooks ==
    [][\A sid \in SessionIds :
          (/\ sessions[sid].status = "completed"
           /\ sessions[sid].outcome = "agreed"
           /\ SelectOffer(sid))
              => /\ req'.status = "ACCEPTED"
                 /\ req'.selected_offer = sid
                 /\ Len(bookings') = Len(bookings) + 1
                 /\ SubSeq(bookings', 1, Len(bookings)) = bookings
                 /\ bookings'[Len(bookings')].session = sid
                 /\ bookings'[Len(bookings')].agreed_price = sessions[sid].current_offer]_vars

\* C30 witness: the request is ACCEPTED with a selected session and a booking
\* at that session's price, a price the provider accepted by button.
C30_Witness ==
    /\ req.status = "ACCEPTED"
    /\ req.selected_offer \in SessionIds
    /\ Len(bookings) = 1
    /\ bookings[1].session = req.selected_offer
    /\ bookings[1].agreed_price = sessions[req.selected_offer].current_offer
    /\ bookings[1].agreed_price > sessions[req.selected_offer].min_acceptable

\* C31 -- cancel_negotiation on an active session leaves it with status
\* failed and outcome cancelled.
C31_CancelFails ==
    [][\A sid \in SessionIds :
          (sessions[sid].status = "active" /\ CancelNegotiation(sid)) =>
              /\ sessions'[sid].status = "failed"
              /\ sessions'[sid].outcome = "cancelled"]_vars

\* C32 -- cancel_negotiation on a session that is not active (a second
\* cancel of the same session included) is rejected and leaves every
\* session's status, outcome and price fields as they were.
C32_InactiveCancelRejected ==
    [][\A sid \in SessionIds :
          (sessions[sid].status # "active" /\ CancelNegotiation(sid)) =>
              sessions' = sessions]_vars

\* C32 witness: a session the customer has cancelled, and another one a
\* provider closed by accepting, are there for a further cancel to name.
C32_Witness ==
    /\ pending = NoPending
    /\ \E sid \in SessionIds : sessions[sid].outcome = "cancelled"
    /\ \E sid \in SessionIds :
          sessions[sid].status = "completed" /\ sessions[sid].outcome = "agreed"

\* C33 -- Every customer-facing negotiation operation (start_negotiation,
\* select_offer, cancel_negotiation; the two read-only views write nothing)
\* invoked by a caller who does not own the request is rejected: it creates
\* or modifies no session and does not modify the request.
C33_OnlyOwnerWrites ==
    [][\A caller \in Users \ {Owner} :
          (\/ \E p \in Providers, sp \in StartPrices :
                 StartNegotiationBy(caller, p, sp[1], sp[2])
           \/ \E sid \in SessionIds \cup {OtherSession} : SelectOfferBy(caller, sid)
           \/ \E sid \in SessionIds : CancelNegotiationBy(caller, sid))
              => UNCHANGED <<req, sessions, bookings>>]_vars

\* C38 -- A provider's accept / reject / counter action that carries session
\* id S and comes from chat X changes state only when S's provider identity
\* is X: from any other chat it leaves every session unchanged, and no
\* action changes a session other than S.
C38_ButtonsBoundToChat ==
    [][\A sid \in SessionIds, chat \in Chats :
          (\/ HandleAccept(sid, chat)
           \/ HandleReject(sid, chat)
           \/ HandleCounter(sid, chat))
              => /\ sessions[sid].provider_phone # chat => sessions' = sessions
                 /\ Len(sessions') = Len(sessions)
                 /\ \A other \in SessionIds \ {sid} :
                       sessions'[other] = sessions[other]]_vars

\* C38 witness: two sessions of different identities, one of which has been
\* closed by its own provider's button while the other is still active, and
\* a keyboard is still on display.
C38_Witness ==
    /\ pending = NoPending
    /\ \E sid \in SessionIds, other \in SessionIds :
          /\ sessions[sid].provider_phone # sessions[other].provider_phone
          /\ sessions[sid].status = "failed"
          /\ sessions[sid].outcome = "no_deal"
          /\ sessions[other].status = "active"

\* C34 -- Re-running the Expiry Scheduler on a request it has already
\* finalized (OFFERS_READY or EXPIRED, no active session) is a no-op: the
\* request and the sessions stay as they are and no further customer
\* notification is created.
C34_RerunIsSilent ==
    (req.status \in {"OFFERS_READY", "EXPIRED"} /\ CountActive(sessions) = 0) =>
        /\ check_negotiation_status(req, sessions) = [req |-> req, sessions |-> sessions]
        /\ NotificationsCreated(req, sessions) = 0

\* C37 -- Whenever the request is OFFERS_READY or EXPIRED none of its
\* sessions is active, and it is OFFERS_READY exactly when at least one of
\* its sessions is completed/agreed; later provider messages and button
\* presses keep it so.
C37_FinalizedMatchesSessions ==
    req.status \in {"OFFERS_READY", "EXPIRED"} =>
        /\ \A sid \in SessionIds : sessions[sid].status # "active"
        /\ req.status = "OFFERS_READY" <=>
               \E sid \in SessionIds :
                  sessions[sid].status = "completed" /\ sessions[sid].outcome = "agreed"

\* The row has exactly one more entry than before, the provider's message
\* `text` (stored under the provider's role, which the chat-completion
\* format of the WhatsApp flow calls "user"), and its count is one higher.
RecordedOnce(before, after, text) ==
    /\ after.message_count = before.message_count + 1
    /\ Len(after.conversation_history) = Len(before.conversation_history) + 1
    /\ SubSeq(after.conversation_history, 1, Len(before.conversation_history))
           = before.conversation_history
    /\ after.conversation_history[Len(after.conversation_history)].content = text
    /\ after.conversation_history[Len(after.conversation_history)].role
           \in {"provider", "user"}

\* C35 -- Every inbound message handled for an active, non-expired session,
\* whether or not a price can be extracted from it, is appended exactly once
\* to conversation_history under the provider's role and raises
\* message_count by one, before the offer is evaluated (so before any reply
\* is appended).
C35_EveryMessageRecorded ==
    \A sid \in SessionIds, text \in InboundTexts :
        (sessions[sid].status = "active" /\ ~is_expired(sessions[sid])) =>
            IF \E p \in Providers : TelegramChatId(p) = sessions[sid].provider_phone
            THEN RecordedOnce(sessions[sid], TelegramHandled(sessions[sid], text), text)
            ELSE \A ai \in InboundReplies :
                    RecordedOnce(sessions[sid],
                                 ProviderResponse(sessions[sid], text, ai).session, text)

\* The notices sent in this step.
NewNotices == SubSeq(notices', Len(notices) + 1, Len(notices'))

\* C36 -- On a successful select_offer the selection notice goes to the
\* chosen session's provider and a non-selection notice to the provider of
\* every other completed/agreed session, none to a provider whose session is
\* active, failed or expired; and over the request's lifetime each of these
\* notices is sent exactly once.
C36_NoticesOnce ==
    /\ [][\A sid \in SessionIds :
             (/\ sessions[sid].status = "completed"
              /\ sessions[sid].outcome = "agreed"
              /\ SelectOffer(sid))
                => /\ \E k \in 1..Len(NewNotices) :
                         /\ NewNotices[k].kind = "selected"
                         /\ NewNotices[k].session = sid
                         /\ NewNotices[k].to = sessions[sid].provider_phone
                   /\ \A i \in SessionIds \ {sid} :
                         (sessions[i].status = "completed" /\ sessions[i].outcome = "agreed")
                            <=> \E k \in 1..Len(NewNotices) :
                                   /\ NewNotices[k].kind = "not selected"
                                   /\ NewNotices[k].session = i
                                   /\ NewNotices[k].to = sessions[i].provider_phone]_vars
    /\ [](\A j \in 1..Len(notices), k \in 1..Len(notices) :
             (notices[j].session = notices[k].session /\ notices[j].kind = notices[k].kind)
                => j = k)

\* C39 -- When the inbound handler's read-modify-save of a session
\* interleaves with an Expiry Scheduler run for the request, the expiry is
\* not lost: when the handler saves a session the run has closed in the
\* meantime, and nothing else is in flight, that session is still not
\* active and the request's status and offers_received agree with the
\* sessions as they now are.
C39_ExpiryNotLost ==
    [][\A k \in 1..Len(loaded), aiOk \in BOOLEAN :
          (/\ SaveTelegram(k, aiOk)
           /\ loaded[k].row.status = "active"
           /\ sessions[loaded[k].sid].status = "expired"
           /\ req.status \in {"OFFERS_READY", "EXPIRED"}
           /\ loaded' = <<>>)
              => /\ sessions'[loaded[k].sid].status # "active"
                 /\ req'.offers_received =
                        Cardinality({i \in 1..Len(sessions') :
                                        /\ sessions'[i].status = "completed"
                                        /\ sessions'[i].outcome = "agreed"})
                 /\ req'.status = "OFFERS_READY" <=> req'.offers_received > 0]_vars

\* C40 -- When two fan-out executions for the same request run at the same
\* time, interleaved between the existing-session check and the session
\* create, there is still never more than one active session for any
\* provider identity of the request.
C40_OneActivePerProvider ==
    \A p \in Providers :
        Cardinality({sid \in SessionIds :
                        /\ sessions[sid].provider_phone = ProviderIdentifier(p)
                        /\ sessions[sid].status = "active"}) <= 1
====
